---- MODULE Spec2Model ----
(***************************************************************************)
(* Room store (src/utils/roomManager.js) and the socket event protocol     *)
(* (src/socket/socketHandler.js) of the meeting signaling server.          *)
(*                                                                         *)
(* Node runs every handler and every timer callback to completion on one   *)
(* thread, so each handler is one atomic action.  A JavaScript Map is an   *)
(* insertion-ordered sequence of records keyed by one field.               *)
(***************************************************************************)
EXTENDS Integers, Sequences, FiniteSets, TLC

\* Number of transport connections that are ever opened (socket ids 1..MaxConns).
MaxConns == 3

\* Number of connections opened when two rooms, or the relay events and every
\* userData, are in play.
WideConns == 2

\* Room ids and persistent user identities that clients supply.
RoomIds == {"r1", "r2"}
UserIds == {"u1"}

\* JavaScript null / undefined for identities, and for a socket id.
Null == "null"
NoSocket == 0

\* A key that the userData object does not have, and the JavaScript booleans
\* (a field of userData holds whatever the client sent).
Absent == "absent"
JsTrue == "true"
JsFalse == "false"

\* userData with the given identity fields and none of displayName, name,
\* videoEnabled, audioEnabled, isHost.
Plain(userId, id) ==
  [present |-> TRUE, userId |-> userId, id |-> id,
   displayName |-> Absent, name |-> Absent,
   videoEnabled |-> Absent, audioEnabled |-> Absent, isHost |-> Absent]

\* userData payloads of join-room: userId set, only id set, neither set.
\* A client sends the same userData with each of its join-room events.
UserDatas ==
  {Plain(u, Null) : u \in UserIds \cup {Null}} \cup {Plain(Null, "u1")}

\* userData whose userId is the empty string (falsy, yet not null): with an
\* id, and without one.
FalsyUserDatas ==
  {Plain("", i) : i \in UserIds \cup {Null}}

\* userData without identity whose displayName, videoEnabled and audioEnabled
\* are each absent, null or set, and two that have only `name`.
FieldUserDatas ==
  {[Plain(Null, Null) EXCEPT !.displayName = d, !.videoEnabled = v, !.audioEnabled = a] :
     d \in {Absent, Null, "Ann"},
     v \in {Absent, Null, JsTrue, JsFalse},
     a \in {Absent, Null, JsTrue, JsFalse}}
    \cup {[Plain(Null, Null) EXCEPT !.displayName = d, !.name = "Bob"] : d \in {Absent, Null}}

\* userData without identity that carries a field called isHost, or none.
FlaggedUserDatas ==
  {[Plain(Null, Null) EXCEPT !.isHost = h] : h \in {Absent, JsTrue, JsFalse}}

\* join-room sent without userData.
Undefined == [Plain(Null, Null) EXCEPT !.present = FALSE]

VARIABLES
  userDataOf, \* socket id -> the userData its client puts in join-room
  nextId,   \* socket ids handed out so far (socket.io gives each connection a fresh id)
  sockets,  \* ids of the connections that are currently open
  rooms,    \* roomManager's `rooms` Map: sequence of room records in insertion order
  groups,   \* socket.io broadcast groups: room id -> set of socket ids that joined it
  timers,   \* pending setTimeout callbacks of the disconnect handler, in firing order
  out,      \* the events emitted by the handler or callback that ran last
  crashed   \* an uncaught exception ended the process

vars == <<userDataOf, nextId, sockets, rooms, groups, timers, out, crashed>>

----------------------------------------------------------------------------
\* JavaScript helpers

\* Truthiness of an identity: null, undefined and "" are falsy.
Truthy(a) == a # Null /\ a # ""

\* a || b on identities
Or(a, b) == IF Truthy(a) THEN a ELSE b

\* userData?.userId || userData?.id || null
UserIdOf(userData) == Or(userData.userId, Or(userData.id, Null))

\* Map keyed by socketId (participants, pendingParticipants)
MapHas(m, k) == \E i \in 1..Len(m) : m[i].socketId = k
MapGet(m, k) == m[CHOOSE i \in 1..Len(m) : m[i].socketId = k]
\* Mutant: a new key goes to the front of the Map.
MapSetFront(m, k, v) ==
  IF MapHas(m, k)
    THEN [i \in 1..Len(m) |-> IF m[i].socketId = k THEN v ELSE m[i]]
    ELSE << v >> \o m

MapSet(m, k, v) ==
  IF MapHas(m, k)
    THEN [i \in 1..Len(m) |-> IF m[i].socketId = k THEN v ELSE m[i]]
    ELSE Append(m, v)
MapDelete(m, k) == SelectSeq(m, LAMBDA e : e.socketId # k)
MapKeys(m) == {m[i].socketId : i \in 1..Len(m)}

\* userData.displayName || userData.name || 'User'
DisplayNameOf(userData) ==
  IF userData.displayName \notin {Absent, Null, ""} THEN userData.displayName
  ELSE IF userData.name \notin {Absent, Null, ""} THEN userData.name
  ELSE "User"

\* `flag: userData.flag !== false` followed by `...userData`: the spread puts
\* the client's value back whenever userData has the key.
EnabledOf(flag) == IF flag = Absent THEN JsTrue ELSE flag

\* The record addParticipant / addPendingParticipant store: socketId, the
\* computed displayName, videoEnabled and audioEnabled, and the spread userData
\* (its identity fields, name and isHost; a client-sent socketId key and the
\* timestamps are not modelled).
Participant(socketId, userData) ==
  [socketId |-> socketId, userId |-> userData.userId, id |-> userData.id,
   displayName |-> DisplayNameOf(userData), name |-> userData.name,
   videoEnabled |-> EnabledOf(userData.videoEnabled),
   audioEnabled |-> EnabledOf(userData.audioEnabled),
   isHost |-> userData.isHost]

\* A stored participant record handed back as userData (admit-participant).
AsUserData(p) ==
  [present |-> TRUE, userId |-> p.userId, id |-> p.id,
   displayName |-> p.displayName, name |-> p.name,
   videoEnabled |-> p.videoEnabled, audioEnabled |-> p.audioEnabled,
   isHost |-> p.isHost]

----------------------------------------------------------------------------
\* roomManager: every operation takes the store `st` and returns the new store
\* (or the value read).

RoomHas(st, roomId) == \E i \in 1..Len(st) : st[i].id = roomId
RoomIndex(st, roomId) == CHOOSE i \in 1..Len(st) : st[i].id = roomId

getRoom(st, roomId) == st[RoomIndex(st, roomId)]

getAllRooms(st) == [i \in 1..Len(st) |-> st[i].id]

createRoom(st, roomId, hostSocketId, hostUserId) ==
  IF ~RoomHas(st, roomId)
    THEN Append(st, [id |-> roomId,
                     participants |-> <<>>,
                     pendingParticipants |-> <<>>,
                     hostSocketId |-> hostSocketId,
                     hostUserId |-> hostUserId])
    ELSE st

getHost(st, roomId) ==
  IF RoomHas(st, roomId) THEN getRoom(st, roomId).hostSocketId ELSE NoSocket

\* Mutant: only the current connection id is compared.
isHostBySocketOnly(st, roomId, socketId, userId) ==
  RoomHas(st, roomId) /\ getRoom(st, roomId).hostSocketId = socketId

isHost(st, roomId, socketId, userId) ==
  IF ~RoomHas(st, roomId) THEN FALSE
  ELSE IF getRoom(st, roomId).hostSocketId = socketId THEN TRUE
  ELSE IF Truthy(userId) /\ getRoom(st, roomId).hostUserId = userId THEN TRUE
  ELSE FALSE

setHostByUserId(st, roomId, socketId, userId) ==
  IF RoomHas(st, roomId)
    THEN [st EXCEPT ![RoomIndex(st, roomId)] =
            [@ EXCEPT !.hostSocketId = socketId,
                      !.hostUserId = IF Truthy(userId) THEN userId ELSE @]]
    ELSE st

\* Mutant: transferHost reports the host it found installed.
transferHostResultStale(st, roomId) ==
  IF RoomHas(st, roomId) /\ Len(getRoom(st, roomId).participants) > 0
    THEN getRoom(st, roomId).hostSocketId
    ELSE NoSocket

\* The value transferHost returns: the first key of participants, or null.
transferHostResult(st, roomId) ==
  IF RoomHas(st, roomId) /\ Len(getRoom(st, roomId).participants) > 0
    THEN getRoom(st, roomId).participants[1].socketId
    ELSE NoSocket

\* Mutant: host goes to the participant that joined last.
transferHostLast(st, roomId) ==
  IF RoomHas(st, roomId) /\ Len(getRoom(st, roomId).participants) > 0
    THEN LET n == Len(getRoom(st, roomId).participants)
             last == getRoom(st, roomId).participants[n]
         IN  [st EXCEPT ![RoomIndex(st, roomId)] =
                [@ EXCEPT !.hostSocketId = last.socketId,
                          !.hostUserId = IF Truthy(last.userId) THEN last.userId ELSE @]]
    ELSE st

\* Mutant: transferHost leaves hostUserId alone.
transferHostKeepsUserId(st, roomId) ==
  IF RoomHas(st, roomId) /\ Len(getRoom(st, roomId).participants) > 0
    THEN [st EXCEPT ![RoomIndex(st, roomId)].hostSocketId =
            getRoom(st, roomId).participants[1].socketId]
    ELSE st

transferHost(st, roomId) ==
  IF RoomHas(st, roomId) /\ Len(getRoom(st, roomId).participants) > 0
    THEN LET first == getRoom(st, roomId).participants[1]
         IN  [st EXCEPT ![RoomIndex(st, roomId)] =
                [@ EXCEPT !.hostSocketId = first.socketId,
                          !.hostUserId = IF Truthy(first.userId) THEN first.userId ELSE @]]
    ELSE st

addParticipant(st, roomId, socketId, userData) ==
  IF RoomHas(st, roomId)
    THEN [st EXCEPT ![RoomIndex(st, roomId)].participants =
            MapSet(@, socketId, Participant(socketId, userData))]
    ELSE st

\* Mutant: the empty room is not cleaned up.
removeParticipantKeepsRoom(st, roomId, socketId) ==
  IF RoomHas(st, roomId)
    THEN [st EXCEPT ![RoomIndex(st, roomId)].participants = MapDelete(@, socketId)]
    ELSE st

removeParticipant(st, roomId, socketId) ==
  IF RoomHas(st, roomId)
    THEN LET left == MapDelete(getRoom(st, roomId).participants, socketId)
         IN  IF Len(left) = 0
               THEN SelectSeq(st, LAMBDA r : r.id # roomId)
               ELSE [st EXCEPT ![RoomIndex(st, roomId)].participants = left]
    ELSE st

getParticipants(st, roomId) ==
  IF RoomHas(st, roomId) THEN getRoom(st, roomId).participants ELSE <<>>

addPendingParticipant(st, roomId, socketId, userData) ==
  IF RoomHas(st, roomId)
    THEN [st EXCEPT ![RoomIndex(st, roomId)].pendingParticipants =
            MapSet(@, socketId, Participant(socketId, userData))]
    ELSE st

\* Mutant: the whole waiting list is dropped.
removePendingParticipantAll(st, roomId, socketId) ==
  IF RoomHas(st, roomId)
    THEN [st EXCEPT ![RoomIndex(st, roomId)].pendingParticipants = <<>>]
    ELSE st

removePendingParticipant(st, roomId, socketId) ==
  IF RoomHas(st, roomId)
    THEN [st EXCEPT ![RoomIndex(st, roomId)].pendingParticipants =
            MapDelete(@, socketId)]
    ELSE st

\* addParticipant / addPendingParticipant read userData.displayName inside
\* `if (room)`: with userData undefined that read throws a TypeError.
addThrows(st, roomId, userData) == RoomHas(st, roomId) /\ ~userData.present

----------------------------------------------------------------------------
\* Emitted events

Payload == [socketId |-> NoSocket, by |-> NoSocket, roomId |-> "", users |-> <<>>]

\* socket.emit(name, ..) and io.to(socketId).emit(name, ..)
ToSocket(socketId, name, payload) ==
  [name |-> name, toSocket |-> socketId, toRoom |-> "", except |-> NoSocket,
   payload |-> payload]

\* io.to(roomId).emit(name, ..)
ToRoom(roomId, name, payload) ==
  [name |-> name, toSocket |-> NoSocket, toRoom |-> roomId, except |-> NoSocket,
   payload |-> payload]

\* socket.to(roomId).emit(name, ..): the group without the sender
ToRoomExcept(roomId, sender, name, payload) ==
  [name |-> name, toSocket |-> NoSocket, toRoom |-> roomId, except |-> sender,
   payload |-> payload]

\* The connections an emitted event is delivered to, given the open
\* connections and the broadcast groups.
RecipientsIn(e, open, gr) ==
  IF e.toSocket # NoSocket
    THEN ({e.toSocket} \cap open) \ {e.except}
    ELSE gr[e.toRoom] \ {e.except}

\* existing-users: the other participants, each with its computed host flag
ExistingUsers(st, roomId, socketId) ==
  LET others == SelectSeq(getParticipants(st, roomId), LAMBDA p : p.socketId # socketId)
  IN  [i \in 1..Len(others) |->
         [socketId |-> others[i].socketId,
          isHost |-> isHost(st, roomId, others[i].socketId, Null)]]

\* existing-users of admit-participant: `isHost: computed` comes before `...p`,
\* so an isHost key of the stored record replaces the computed flag.
existingUsersData(st, roomId, targetSocketId) ==
  LET others == SelectSeq(getParticipants(st, roomId),
                          LAMBDA p : p.socketId # targetSocketId)
  IN  [i \in 1..Len(others) |->
         [socketId |-> others[i].socketId,
          isHost |-> IF others[i].isHost # Absent
                       THEN others[i].isHost = JsTrue
                       ELSE isHost(st, roomId, others[i].socketId, Null)]]

----------------------------------------------------------------------------
\* Handlers.  Each On.. operator is what one handler does when it runs in the
\* current state: the store, broadcast groups and emitted events it leaves,
\* and whether it threw.

\* The handler ran to completion.
Done(st, gr, o) == [rooms |-> st, groups |-> gr, out |-> o, threw |-> FALSE]

\* The handler threw: the store keeps what was written before the throw and
\* nothing was emitted yet.
Throw(st) == [rooms |-> st, groups |-> groups, out |-> <<>>, threw |-> TRUE]

\* socket.join(roomId)
Joined(socketId, roomId) == [groups EXCEPT ![roomId] = @ \cup {socketId}]

\* join-room, first-user branch
JoinFirstUser(socket, roomId, userData) ==
  LET userId == UserIdOf(userData)
      st1 == createRoom(rooms, roomId, socket, userId)
      st2 == addParticipant(st1, roomId, socket, userData)
  IN  IF addThrows(st1, roomId, userData)
        THEN Throw(st1)
        ELSE Done(st2, Joined(socket, roomId),
                  << ToSocket(socket, "host-status", Payload),
                     ToSocket(socket, "admitted", [Payload EXCEPT !.roomId = roomId]),
                     ToRoom(roomId, "host-updated",
                            [Payload EXCEPT !.socketId = getHost(st2, roomId)]) >>)

\* Mutant: the re-admit branch announces the connection on every join.
JoinReadmitAnnounces(socket, roomId, userData, isAlreadyParticipant, isHostNow) ==
  LET userId == UserIdOf(userData)
      st1 == createRoom(rooms, roomId, NoSocket, Null)
      st2 == IF isHostNow /\ Truthy(userId)
               THEN setHostByUserId(st1, roomId, socket, userId)
               ELSE st1
      st3 == IF ~isAlreadyParticipant
               THEN addParticipant(st2, roomId, socket, userData)
               ELSE st2
  IN  IF ~isAlreadyParticipant /\ addThrows(st2, roomId, userData)
        THEN Throw(st2)
        ELSE Done(st3, Joined(socket, roomId),
                  (IF isHostNow THEN << ToSocket(socket, "host-status", Payload) >> ELSE <<>>)
                  \o << ToSocket(socket, "admitted", [Payload EXCEPT !.roomId = roomId]),
                        ToSocket(socket, "existing-users",
                                 [Payload EXCEPT !.users = ExistingUsers(st3, roomId, socket)]),
                        ToRoomExcept(roomId, socket, "user-connected",
                                     [Payload EXCEPT !.socketId = socket]) >>)

\* join-room, re-admit branch (already a participant, or recognised as host)
JoinReadmit(socket, roomId, userData, isAlreadyParticipant, isHostNow) ==
  LET userId == UserIdOf(userData)
      st1 == createRoom(rooms, roomId, NoSocket, Null)
      st2 == IF isHostNow /\ Truthy(userId)
               THEN setHostByUserId(st1, roomId, socket, userId)
               ELSE st1
      st3 == IF ~isAlreadyParticipant
               THEN addParticipant(st2, roomId, socket, userData)
               ELSE st2
  IN  IF ~isAlreadyParticipant /\ addThrows(st2, roomId, userData)
        THEN Throw(st2)
        ELSE Done(st3, Joined(socket, roomId),
                  (IF isHostNow THEN << ToSocket(socket, "host-status", Payload) >> ELSE <<>>)
                  \o << ToSocket(socket, "admitted", [Payload EXCEPT !.roomId = roomId]),
                        ToSocket(socket, "existing-users",
                                 [Payload EXCEPT !.users = ExistingUsers(st3, roomId, socket)]) >>
                  \o (IF ~isAlreadyParticipant
                        THEN << ToRoomExcept(roomId, socket, "user-connected",
                                             [Payload EXCEPT !.socketId = socket]) >>
                        ELSE <<>>))

\* join-room, waiting-room branch
JoinWaiting(socket, roomId, userData) ==
  LET isInWaitingRoom == MapHas(getRoom(rooms, roomId).pendingParticipants, socket)
      st1 == createRoom(rooms, roomId, NoSocket, Null)
      st2 == addPendingParticipant(st1, roomId, socket, userData)
      hostSocketId == getHost(st2, roomId)
      waiting == ToSocket(socket, "waiting-room", [Payload EXCEPT !.roomId = roomId])
  IN  IF isInWaitingRoom
        THEN Done(rooms, groups, << waiting >>)
      ELSE IF addThrows(st1, roomId, userData)
        THEN Throw(st1)
      ELSE Done(st2, groups,
                << waiting >> \o
                (IF hostSocketId # NoSocket
                   THEN << ToSocket(hostSocketId, "pending-participant",
                                    [Payload EXCEPT !.socketId = socket]) >>
                   ELSE <<>>))

\* Mutant: every join-room takes the first-user branch.
OnJoinRoomAlwaysFirst(socket, roomId, userData) ==
  JoinFirstUser(socket, roomId, userData)

\* socket.on('join-room')
OnJoinRoom(socket, roomId, userData) ==
  LET isFirstUser == ~RoomHas(rooms, roomId)
                       \/ Len(getRoom(rooms, roomId).participants) = 0
  IN  IF isFirstUser
        THEN JoinFirstUser(socket, roomId, userData)
        ELSE LET isAlreadyParticipant ==
                   MapHas(getRoom(rooms, roomId).participants, socket)
                 isHostNow == isHost(rooms, roomId, socket, UserIdOf(userData))
             IN  IF isAlreadyParticipant \/ isHostNow
                   THEN JoinReadmit(socket, roomId, userData,
                                    isAlreadyParticipant, isHostNow)
                   ELSE JoinWaiting(socket, roomId, userData)

\* Mutant: admit-participant does not look the target up in the pending list.
OnAdmitParticipantUnchecked(socket, roomId, targetSocketId) ==
  IF ~isHost(rooms, roomId, socket, Null)
    THEN Done(rooms, groups, << ToSocket(socket, "error", Payload) >>)
  ELSE
    LET st1 == removePendingParticipant(rooms, roomId, targetSocketId)
        st2 == addParticipant(st1, roomId, targetSocketId,
                              Plain(Null, Null))
    IN  Done(st2, groups,
             << ToSocket(targetSocketId, "admitted", [Payload EXCEPT !.roomId = roomId]),
                ToSocket(socket, "participant-admitted",
                         [Payload EXCEPT !.socketId = targetSocketId]) >>)

\* socket.on('admit-participant')
OnAdmitParticipant(socket, roomId, targetSocketId) ==
  IF ~isHost(rooms, roomId, socket, Null)
    THEN Done(rooms, groups, << ToSocket(socket, "error", Payload) >>)
  ELSE IF ~RoomHas(rooms, roomId)
          \/ ~MapHas(getRoom(rooms, roomId).pendingParticipants, targetSocketId)
    THEN Done(rooms, groups, << ToSocket(socket, "error", Payload) >>)
  ELSE
    LET pendingData == MapGet(getRoom(rooms, roomId).pendingParticipants, targetSocketId)
        st1 == removePendingParticipant(rooms, roomId, targetSocketId)
        st2 == addParticipant(st1, roomId, targetSocketId, AsUserData(pendingData))
        \* io.sockets.sockets.get(targetSocketId): only an open connection joins
        gr == IF targetSocketId \in sockets THEN Joined(targetSocketId, roomId) ELSE groups
    IN  Done(st2, gr,
             << ToSocket(targetSocketId, "admitted", [Payload EXCEPT !.roomId = roomId]),
                ToSocket(targetSocketId, "existing-users",
                         [Payload EXCEPT !.users = existingUsersData(st2, roomId, targetSocketId)]),
                ToRoom(roomId, "user-connected", [Payload EXCEPT !.socketId = targetSocketId]),
                ToSocket(socket, "participant-admitted",
                         [Payload EXCEPT !.socketId = targetSocketId]) >>)

\* Mutant: reject-participant refuses a target that is not waiting.
OnRejectParticipantStrict(socket, roomId, targetSocketId) ==
  IF ~isHost(rooms, roomId, socket, Null)
       \/ ~MapHas(getRoom(rooms, roomId).pendingParticipants, targetSocketId)
    THEN Done(rooms, groups, << ToSocket(socket, "error", Payload) >>)
    ELSE Done(removePendingParticipant(rooms, roomId, targetSocketId), groups,
              << ToSocket(targetSocketId, "rejected", [Payload EXCEPT !.roomId = roomId]),
                 ToSocket(socket, "participant-rejected",
                          [Payload EXCEPT !.socketId = targetSocketId]) >>)

\* socket.on('reject-participant')
OnRejectParticipant(socket, roomId, targetSocketId) ==
  IF ~isHost(rooms, roomId, socket, Null)
    THEN Done(rooms, groups, << ToSocket(socket, "error", Payload) >>)
    ELSE Done(removePendingParticipant(rooms, roomId, targetSocketId), groups,
              << ToSocket(targetSocketId, "rejected", [Payload EXCEPT !.roomId = roomId]),
                 ToSocket(socket, "participant-rejected",
                          [Payload EXCEPT !.socketId = targetSocketId]) >>)

\* socket.on('mute-participant')
OnMuteParticipant(socket, roomId, targetSocketId) ==
  IF ~isHost(rooms, roomId, socket, Null)
    THEN Done(rooms, groups, << ToSocket(socket, "error", Payload) >>)
    ELSE Done(rooms, groups,
              << ToSocket(targetSocketId, "force-mute", [Payload EXCEPT !.socketId = socket]),
                 ToRoomExcept(roomId, socket, "participant-muted",
                              [Payload EXCEPT !.socketId = targetSocketId, !.by = socket]) >>)

\* Mutant: the host check of kick-participant also accepts the caller's
\* persistent identity.
OnKickParticipantByIdentity(socket, roomId, targetSocketId) ==
  IF ~isHost(rooms, roomId, socket, UserIdOf(userDataOf[socket]))
    THEN Done(rooms, groups, << ToSocket(socket, "error", Payload) >>)
    ELSE Done(removeParticipant(rooms, roomId, targetSocketId), groups,
              << ToSocket(targetSocketId, "kicked", [Payload EXCEPT !.socketId = socket]),
                 ToRoom(roomId, "participant-kicked",
                        [Payload EXCEPT !.socketId = targetSocketId, !.by = socket]) >>)

\* Mutant: kick-participant leaves the emptied room in the store.
OnKickParticipantKeepsRoom(socket, roomId, targetSocketId) ==
  IF ~isHost(rooms, roomId, socket, Null)
    THEN Done(rooms, groups, << ToSocket(socket, "error", Payload) >>)
    ELSE Done(removeParticipantKeepsRoom(rooms, roomId, targetSocketId), groups,
              << ToSocket(targetSocketId, "kicked", [Payload EXCEPT !.socketId = socket]),
                 ToRoom(roomId, "participant-kicked",
                        [Payload EXCEPT !.socketId = targetSocketId, !.by = socket]) >>)

\* socket.on('kick-participant')
OnKickParticipant(socket, roomId, targetSocketId) ==
  IF ~isHost(rooms, roomId, socket, Null)
    THEN Done(rooms, groups, << ToSocket(socket, "error", Payload) >>)
    ELSE Done(removeParticipant(rooms, roomId, targetSocketId), groups,
              << ToSocket(targetSocketId, "kicked", [Payload EXCEPT !.socketId = socket]),
                 ToRoom(roomId, "participant-kicked",
                        [Payload EXCEPT !.socketId = targetSocketId, !.by = socket]) >>)

\* The guard of the relay handlers: the sender is an active participant.
IsParticipant(socket, roomId) ==
  RoomHas(rooms, roomId) /\ MapHas(getRoom(rooms, roomId).participants, socket)

\* Mutant: chat-message is relayed whoever sends it.
OnChatMessageUnguarded(socket, roomId) ==
  Done(rooms, groups, << ToRoom(roomId, "chat-message", Payload) >>)

\* socket.on('chat-message')
OnChatMessage(socket, roomId) ==
  IF ~IsParticipant(socket, roomId)
    THEN Done(rooms, groups, <<>>)
    ELSE Done(rooms, groups, << ToRoom(roomId, "chat-message", Payload) >>)

\* socket.on('toggle-audio')
OnToggleAudio(socket, roomId) ==
  IF ~IsParticipant(socket, roomId)
    THEN Done(rooms, groups, <<>>)
    ELSE Done(rooms, groups,
              << ToRoomExcept(roomId, socket, "user-audio-toggled",
                              [Payload EXCEPT !.socketId = socket]) >>)

\* socket.on('toggle-video')
OnToggleVideo(socket, roomId) ==
  IF ~IsParticipant(socket, roomId)
    THEN Done(rooms, groups, <<>>)
    ELSE Done(rooms, groups,
              << ToRoomExcept(roomId, socket, "user-video-toggled",
                              [Payload EXCEPT !.socketId = socket]) >>)

\* socket.on('transcription')
OnTranscription(socket, roomId) ==
  IF ~IsParticipant(socket, roomId)
    THEN Done(rooms, groups, <<>>)
    ELSE Done(rooms, groups,
              << ToRoom(roomId, "transcription", [Payload EXCEPT !.socketId = socket]) >>)

\* socket.on('screen-share-start')
OnScreenShareStart(socket, roomId) ==
  IF ~IsParticipant(socket, roomId)
    THEN Done(rooms, groups, <<>>)
    ELSE Done(rooms, groups,
              << ToRoomExcept(roomId, socket, "screen-share-started",
                              [Payload EXCEPT !.socketId = socket]) >>)

\* socket.on('screen-share-stop')
OnScreenShareStop(socket, roomId) ==
  IF ~IsParticipant(socket, roomId)
    THEN Done(rooms, groups, <<>>)
    ELSE Done(rooms, groups,
              << ToRoomExcept(roomId, socket, "screen-share-stopped",
                              [Payload EXCEPT !.socketId = socket]) >>)

\* Mutant: the disconnect handler leaves the pending list alone.
DisconnectRoomKeepsPending(d, socket, roomId) ==
  IF ~RoomHas(d.rooms, roomId) THEN d
  ELSE
    LET room == getRoom(d.rooms, roomId)
        wasParticipant == MapHas(room.participants, socket)
        wasHost == isHost(d.rooms, roomId, socket, Null)
        st1 == IF wasParticipant THEN removeParticipant(d.rooms, roomId, socket) ELSE d.rooms
        sizeLeft == Len(MapDelete(room.participants, socket))
        tq == IF wasParticipant /\ wasHost /\ sizeLeft > 0
                THEN Append(d.timers, [roomId |-> roomId,
                                       hostUserId |-> room.hostUserId,
                                       oldHostSocketId |-> socket])
                ELSE d.timers
        o1 == IF wasParticipant
                THEN Append(d.out, ToRoomExcept(roomId, socket, "user-disconnected",
                                                [Payload EXCEPT !.socketId = socket]))
                ELSE d.out
        wasPending == MapHas(room.pendingParticipants, socket)
        st2 == st1
        hostSocketId == getHost(st2, roomId)
        o2 == IF wasPending /\ hostSocketId # NoSocket
                THEN Append(o1, ToSocket(hostSocketId, "participant-rejected",
                                         [Payload EXCEPT !.socketId = socket]))
                ELSE o1
    IN  [rooms |-> st2, timers |-> tq, out |-> o2]

\* The disconnect handler's body for one room of its getAllRooms() snapshot.
\* `d` carries the store, the timer queue and the emitted events so far.
\* `room` is the object read before any removal: the handler keeps using it
\* after removeParticipant may have deleted the room from the store.
DisconnectRoom(d, socket, roomId) ==
  IF ~RoomHas(d.rooms, roomId) THEN d
  ELSE
    LET room == getRoom(d.rooms, roomId)
        wasParticipant == MapHas(room.participants, socket)
        wasHost == isHost(d.rooms, roomId, socket, Null)
        st1 == IF wasParticipant THEN removeParticipant(d.rooms, roomId, socket) ELSE d.rooms
        sizeLeft == Len(MapDelete(room.participants, socket))
        tq == IF wasParticipant /\ wasHost /\ sizeLeft > 0
                THEN Append(d.timers, [roomId |-> roomId,
                                       hostUserId |-> room.hostUserId,
                                       oldHostSocketId |-> socket])
                ELSE d.timers
        o1 == IF wasParticipant
                THEN Append(d.out, ToRoomExcept(roomId, socket, "user-disconnected",
                                                [Payload EXCEPT !.socketId = socket]))
                ELSE d.out
        wasPending == MapHas(room.pendingParticipants, socket)
        st2 == IF wasPending THEN removePendingParticipant(st1, roomId, socket) ELSE st1
        hostSocketId == getHost(st2, roomId)
        o2 == IF wasPending /\ hostSocketId # NoSocket
                THEN Append(o1, ToSocket(hostSocketId, "participant-rejected",
                                         [Payload EXCEPT !.socketId = socket]))
                ELSE o1
    IN  [rooms |-> st2, timers |-> tq, out |-> o2]

RECURSIVE DisconnectRooms(_, _, _)
DisconnectRooms(d, socket, allRooms) ==
  IF allRooms = <<>> THEN d
  ELSE DisconnectRooms(DisconnectRoom(d, socket, Head(allRooms)), socket, Tail(allRooms))

\* Mutant: the disconnect handler cleans up only the first room of the store.
OnDisconnectFirstRoom(socket) ==
  DisconnectRooms([rooms |-> rooms, timers |-> timers, out |-> <<>>],
                  socket,
                  IF getAllRooms(rooms) = <<>> THEN <<>> ELSE << Head(getAllRooms(rooms)) >>)

\* socket.on('disconnect')
OnDisconnect(socket) ==
  DisconnectRooms([rooms |-> rooms, timers |-> timers, out |-> <<>>],
                  socket, getAllRooms(rooms))

\* The participant the reconciliation's identity loop stops at: the first
\* one, in insertion order, whose userId || id equals the departed host's.
ReconnectedHost(participants, hostUserId) ==
  LET hits == IF Truthy(hostUserId)
                THEN SelectSeq(participants, LAMBDA p : Or(p.userId, p.id) = hostUserId)
                ELSE <<>>
  IN  IF hits # <<>> THEN hits[1].socketId ELSE NoSocket

\* What the setTimeout callback `t` does to the store, and what it emits.
Reconcile(st, t) ==
  IF ~RoomHas(st, t.roomId) THEN [rooms |-> st, out |-> <<>>]
  ELSE
    LET currentRoom == getRoom(st, t.roomId)
        found == ReconnectedHost(currentRoom.participants, t.hostUserId)
        newHost == transferHostResult(st, t.roomId)
    IN  IF found # NoSocket
          THEN [rooms |-> setHostByUserId(st, t.roomId, found, t.hostUserId),
                out |-> << ToSocket(found, "host-status", Payload),
                           ToRoom(t.roomId, "host-updated",
                                  [Payload EXCEPT !.socketId = found]) >>]
        ELSE IF currentRoom.hostSocketId = t.oldHostSocketId
          THEN [rooms |-> transferHost(st, t.roomId),
                out |-> IF newHost # NoSocket
                          THEN << ToRoom(t.roomId, "host-updated",
                                         [Payload EXCEPT !.socketId = newHost]),
                                  ToSocket(newHost, "host-status", Payload) >>
                          ELSE <<>>]
        ELSE [rooms |-> st, out |-> <<>>]

----------------------------------------------------------------------------
\* The state machine

Init ==
  /\ userDataOf = [s \in 1..MaxConns |-> Undefined]
  /\ nextId = 0
  /\ sockets = {}
  /\ rooms = <<>>
  /\ groups = [r \in RoomIds |-> {}]
  /\ timers = <<>>
  /\ out = <<>>
  /\ crashed = FALSE

\* io.on('connection'): a new connection with a fresh socket id, one of at
\* most n, whose client sends a userData of U.
ConnectOf(n, U) ==
  /\ ~crashed
  /\ nextId < n
  /\ nextId' = nextId + 1
  /\ sockets' = sockets \cup {nextId + 1}
  /\ \E u \in U : userDataOf' = [userDataOf EXCEPT ![nextId + 1] = u]
  /\ out' = <<>>
  /\ UNCHANGED <<rooms, groups, timers, crashed>>

Connect == ConnectOf(MaxConns, UserDatas)

\* The effect e of a handler takes place.  An exception that leaves the
\* handler is uncaught and ends the process.
Handled(e) ==
  /\ rooms' = e.rooms
  /\ groups' = e.groups
  /\ out' = e.out
  /\ crashed' = e.threw
  /\ UNCHANGED <<userDataOf, nextId, sockets, timers>>

\* An open connection sends join-room.
JoinRoom(socket, roomId, userData) ==
  /\ ~crashed
  /\ socket \in sockets
  /\ Handled(OnJoinRoom(socket, roomId, userData))

\* An open connection sends admit-participant.
AdmitParticipant(socket, roomId, targetSocketId) ==
  /\ ~crashed
  /\ socket \in sockets
  /\ Handled(OnAdmitParticipant(socket, roomId, targetSocketId))

\* An open connection sends reject-participant.
RejectParticipant(socket, roomId, targetSocketId) ==
  /\ ~crashed
  /\ socket \in sockets
  /\ Handled(OnRejectParticipant(socket, roomId, targetSocketId))

\* An open connection sends mute-participant.
MuteParticipant(socket, roomId, targetSocketId) ==
  /\ ~crashed
  /\ socket \in sockets
  /\ Handled(OnMuteParticipant(socket, roomId, targetSocketId))

\* An open connection sends kick-participant.
KickParticipant(socket, roomId, targetSocketId) ==
  /\ ~crashed
  /\ socket \in sockets
  /\ Handled(OnKickParticipant(socket, roomId, targetSocketId))

\* The connection is lost: socket.io has already taken the socket out of
\* every broadcast group when the disconnect handler runs.
Disconnect(socket) ==
  /\ ~crashed
  /\ socket \in sockets
  /\ LET d == OnDisconnect(socket)
     IN  /\ rooms' = d.rooms
         /\ timers' = d.timers
         /\ out' = d.out
  /\ sockets' = sockets \ {socket}
  /\ groups' = [r \in RoomIds |-> groups[r] \ {socket}]
  /\ UNCHANGED <<userDataOf, nextId, crashed>>

\* The oldest pending setTimeout callback fires (all have the same delay).
TimerFire ==
  /\ ~crashed
  /\ timers # <<>>
  /\ LET d == Reconcile(rooms, Head(timers))
     IN  /\ rooms' = d.rooms
         /\ out' = d.out
  /\ timers' = Tail(timers)
  /\ UNCHANGED <<userDataOf, nextId, sockets, groups, crashed>>

\* An open connection sends chat-message.
ChatMessage(socket, roomId) ==
  /\ ~crashed
  /\ socket \in sockets
  /\ Handled(OnChatMessage(socket, roomId))

\* An open connection sends toggle-audio.
ToggleAudio(socket, roomId) ==
  /\ ~crashed
  /\ socket \in sockets
  /\ Handled(OnToggleAudio(socket, roomId))

\* An open connection sends toggle-video.
ToggleVideo(socket, roomId) ==
  /\ ~crashed
  /\ socket \in sockets
  /\ Handled(OnToggleVideo(socket, roomId))

\* An open connection sends transcription.
Transcription(socket, roomId) ==
  /\ ~crashed
  /\ socket \in sockets
  /\ Handled(OnTranscription(socket, roomId))

\* An open connection sends screen-share-start.
ScreenShareStart(socket, roomId) ==
  /\ ~crashed
  /\ socket \in sockets
  /\ Handled(OnScreenShareStart(socket, roomId))

\* An open connection sends screen-share-stop.
ScreenShareStop(socket, roomId) ==
  /\ ~crashed
  /\ socket \in sockets
  /\ Handled(OnScreenShareStop(socket, roomId))

\* The host-protocol events a client can send about the rooms R and the
\* connection losses and timer firings.  join-room carries the client's
\* userData, or none at all.
Protocol(R) ==
  \/ \E s \in 1..MaxConns, r \in R : JoinRoom(s, r, userDataOf[s])
  \/ \E s \in 1..MaxConns, r \in R : JoinRoom(s, r, Undefined)
  \/ \E s \in 1..MaxConns, r \in R, t \in 1..MaxConns : AdmitParticipant(s, r, t)
  \/ \E s \in 1..MaxConns, r \in R, t \in 1..MaxConns : RejectParticipant(s, r, t)
  \/ \E s \in 1..MaxConns, r \in R, t \in 1..MaxConns : MuteParticipant(s, r, t)
  \/ \E s \in 1..MaxConns, r \in R, t \in 1..MaxConns : KickParticipant(s, r, t)
  \/ \E s \in 1..MaxConns : Disconnect(s)
  \/ TimerFire

\* The relay events a client can send.
Relays ==
  \/ \E s \in 1..MaxConns, r \in RoomIds : ChatMessage(s, r)
  \/ \E s \in 1..MaxConns, r \in RoomIds : ToggleAudio(s, r)
  \/ \E s \in 1..MaxConns, r \in RoomIds : ToggleVideo(s, r)
  \/ \E s \in 1..MaxConns, r \in RoomIds : Transcription(s, r)
  \/ \E s \in 1..MaxConns, r \in RoomIds : ScreenShareStart(s, r)
  \/ \E s \in 1..MaxConns, r \in RoomIds : ScreenShareStop(s, r)

\* Up to MaxConns connections and the host protocol of one room.
Next ==
  \/ Connect
  \/ Protocol({"r1"})

Spec == Init /\ [][Next]_vars

\* Node fires every armed timer; clients are free to stay silent.
FairSpec == Spec /\ WF_vars(TimerFire)

\* Up to WideConns connections and the host protocol of every room.
RoomsNext ==
  \/ ConnectOf(WideConns, UserDatas)
  \/ Protocol(RoomIds)

RoomsSpec == Init /\ [][RoomsNext]_vars

\* Up to WideConns connections with any userData, the host protocol of one
\* room and the relay events.
RelayNext ==
  \/ ConnectOf(WideConns, UserDatas \cup FalsyUserDatas)
  \/ Protocol({"r1"})
  \/ Relays

RelaySpec == Init /\ [][RelayNext]_vars

\* Up to WideConns connections whose userData may carry an isHost field, and
\* the host protocol of one room.
RosterNext ==
  \/ ConnectOf(WideConns, FlaggedUserDatas)
  \/ Protocol({"r1"})

RosterSpec == Init /\ [][RosterNext]_vars

\* Up to WideConns connections with any displayName, videoEnabled and
\* audioEnabled, and the events of one room that store a record:
\* join-room (addParticipant, addPendingParticipant) and admit-participant
\* (addParticipant of the pending record).
FieldsNext ==
  \/ ConnectOf(WideConns, FieldUserDatas)
  \/ \E s \in 1..WideConns : JoinRoom(s, "r1", userDataOf[s])
  \/ \E s \in 1..WideConns, t \in 1..WideConns : AdmitParticipant(s, "r1", t)

FieldsSpec == Init /\ [][FieldsNext]_vars

----------------------------------------------------------------------------
\* State functions used by the properties

ParticipantsIn(st, r) ==
  IF RoomHas(st, r) THEN MapKeys(getRoom(st, r).participants) ELSE {}

PendingIn(st, r) ==
  IF RoomHas(st, r) THEN MapKeys(getRoom(st, r).pendingParticipants) ELSE {}

HostUserIdIn(st, r) == IF RoomHas(st, r) THEN getRoom(st, r).hostUserId ELSE Null

Participants(r) == ParticipantsIn(rooms, r)

Pending(r) == PendingIn(rooms, r)

HostUserId(r) == HostUserIdIn(rooms, r)

\* Positions in `out` of the events with this name.
Emitted(name) == {i \in 1..Len(out) : out[i].name = name}

\* Room r is in the store with active participants (the join handler's
\* `isFirstUser` is false).
HasActive(r) == RoomHas(rooms, r) /\ Len(getRoom(rooms, r).participants) > 0

\* Some participant of room r carries the identity userId.
Carried(r, userId) ==
  /\ Truthy(userId)
  /\ \E i \in 1..Len(getParticipants(rooms, r)) :
       Or(getParticipants(rooms, r)[i].userId, getParticipants(rooms, r)[i].id) = userId

\* hostSocketId of room r is not one of its active participants.
StaleHost(r) ==
  ~crashed /\ RoomHas(rooms, r) /\ getHost(rooms, r) \notin Participants(r)

----------------------------------------------------------------------------
\* C1: after every completed handler or timer callback, every room in the
\* store has at least one active participant (a room without active
\* participants is not in the store, whatever its pending list held).
C1_RoomExistsIffActive ==
  ~crashed => \A i \in 1..Len(rooms) : Len(rooms[i].participants) > 0

\* The sole participant was kicked and the room is gone.
C1_Witness ==
  /\ ~crashed
  /\ ~RoomHas(rooms, "r1")
  /\ Emitted("participant-kicked") # {}

\* C2: no connection id is a key of both participants and pendingParticipants
\* of a room.
C2_Disjoint ==
  \A r \in RoomIds : Participants(r) \cap Pending(r) = {}

\* C3: a join-room that finds active participants, from a connection that is
\* not active there and not recognised as host, leaves the connection pending
\* and not active; a pending connection becomes active only by an
\* admit-participant of the connection that is hostSocketId.
C3_AdmissionControl ==
  [][ /\ \A s \in sockets, r \in RoomIds : \A u \in {userDataOf[s], Undefined} :
           ( /\ HasActive(r)
             /\ s \notin Participants(r)
             /\ ~isHost(rooms, r, s, UserIdOf(u))
             /\ JoinRoom(s, r, u) )
           => (s \in Pending(r)' /\ s \notin Participants(r)')
      /\ \A c \in sockets, r \in RoomIds :
           (c \in Pending(r) /\ c \notin Participants(r) /\ c \in Participants(r)')
           => AdmitParticipant(getHost(rooms, r), r, c)
    ]_vars

\* C4: admit, reject, mute or kick from a connection that is not hostSocketId
\* (unknown room and matching hostUserId included) sends `error` to the caller,
\* nothing to anyone else, and leaves the store and the broadcast groups
\* unchanged.
C4_NonHostRejected ==
  ~crashed =>
    \A s \in sockets, r \in RoomIds, t \in 1..MaxConns :
      getHost(rooms, r) # s =>
        \A e \in {OnAdmitParticipant(s, r, t), OnRejectParticipant(s, r, t),
                  OnMuteParticipant(s, r, t), OnKickParticipant(s, r, t)} :
          /\ ~e.threw
          /\ e.out = << ToSocket(s, "error", Payload) >>
          /\ \A i \in 1..Len(e.out) : RecipientsIn(e.out[i], sockets, e.groups) \subseteq {s}
          /\ e.rooms = rooms
          /\ e.groups = groups

\* A connection whose identity is the room's hostUserId, but which is not
\* hostSocketId, was refused while somebody was waiting.
C4_Witness ==
  \E s \in sockets :
    /\ out = << ToSocket(s, "error", Payload) >>
    /\ RoomHas(rooms, "r1")
    /\ getHost(rooms, "r1") # s
    /\ UserIdOf(userDataOf[s]) # Null
    /\ UserIdOf(userDataOf[s]) = HostUserId("r1")
    /\ Pending("r1") # {}

\* C5: the disconnect of a connection leaves hostSocketId of every room that
\* stays in the store as it is; when the reconciliation fires with the departed
\* host still installed and no participant carrying hostUserId, the first
\* participant becomes host, is sent host-status and the room is sent
\* host-updated naming it.
C5_HostFailover ==
  ~crashed =>
    /\ \A s \in sockets, r \in RoomIds :
         RoomHas(OnDisconnect(s).rooms, r)
           => getHost(OnDisconnect(s).rooms, r) = getHost(rooms, r)
    /\ ( /\ timers # <<>>
         /\ RoomHas(rooms, Head(timers).roomId)
         /\ getHost(rooms, Head(timers).roomId) = Head(timers).oldHostSocketId
         /\ ~Carried(Head(timers).roomId, HostUserId(Head(timers).roomId)) )
       => LET r == Head(timers).roomId
              e == Reconcile(rooms, Head(timers))
              first == getRoom(rooms, r).participants[1].socketId
          IN  /\ getHost(e.rooms, r) = first
              /\ first \in ParticipantsIn(e.rooms, r)
              /\ \E i \in 1..Len(e.out) :
                   /\ e.out[i] = ToSocket(first, "host-status", Payload)
                   /\ first \in RecipientsIn(e.out[i], sockets, groups)
              /\ \E i \in 1..Len(e.out) :
                   e.out[i] = ToRoom(r, "host-updated", [Payload EXCEPT !.socketId = first])

\* The reconciliation has just transferred host to the first of two
\* remaining participants.
C5_Witness ==
  /\ RoomHas(rooms, "r1")
  /\ Len(getRoom(rooms, "r1").participants) = 2
  /\ LET first == getRoom(rooms, "r1").participants[1].socketId
     IN  /\ getHost(rooms, "r1") = first
         /\ out = << ToRoom("r1", "host-updated", [Payload EXCEPT !.socketId = first]),
                     ToSocket(first, "host-status", Payload) >>

\* C6: a connection that joins with the departed host's identity while the
\* reconciliation is pending becomes an active participant and hostSocketId at
\* once, and the reconciliation leaves it host.
C6_ReconnectKeepsHost ==
  [][ /\ \A a \in sockets, r \in RoomIds :
           ( /\ HasActive(r)
             /\ a \notin Participants(r) /\ a \notin Pending(r)
             /\ UserIdOf(userDataOf[a]) # Null
             /\ UserIdOf(userDataOf[a]) = HostUserId(r)
             /\ \E i \in 1..Len(timers) :
                  /\ timers[i].roomId = r
                  /\ timers[i].oldHostSocketId = getHost(rooms, r)
             /\ JoinRoom(a, r, userDataOf[a]) )
           => /\ a \in Participants(r)'
              /\ a \notin Pending(r)'
              /\ getHost(rooms', r) = a
      /\ \A a \in sockets :
           ( /\ timers # <<>>
             /\ a \in Participants(Head(timers).roomId)
             /\ getHost(rooms, Head(timers).roomId) = a
             /\ a > Head(timers).oldHostSocketId
             /\ Head(timers).hostUserId # Null
             /\ UserIdOf(userDataOf[a]) = Head(timers).hostUserId
             /\ TimerFire )
           => getHost(rooms', Head(timers).roomId) = a
    ]_vars

\* C7: a reconciliation that finds a hostSocketId other than the departed
\* host's leaves hostSocketId and hostUserId unchanged and emits nothing.
C7_ReconcileOnlyWhileStale ==
  [][ ( /\ timers # <<>>
        /\ RoomHas(rooms, Head(timers).roomId)
        /\ getHost(rooms, Head(timers).roomId) # Head(timers).oldHostSocketId
        /\ TimerFire )
      => /\ getHost(rooms', Head(timers).roomId) = getHost(rooms, Head(timers).roomId)
         /\ HostUserIdIn(rooms', Head(timers).roomId) = HostUserId(Head(timers).roomId)
         /\ out' = <<>>
    ]_vars

\* C8: whenever a room's hostSocketId is not one of its participants, then
\* later it is one of them or the room is gone.
C8_StaleHostHeals ==
  \A r \in RoomIds : StaleHost(r) ~> ~StaleHost(r)

\* C9: a join-room for a room id not in the store leaves a room whose host and
\* sole participant is the joining connection, with nobody pending, and sends
\* the connection host-status and admitted; a join that takes the bootstrap
\* branch and sends host-status leaves getHost equal to the joining connection.
C9_BootstrapHost ==
  [][ \A s \in sockets, r \in RoomIds : \A u \in {userDataOf[s], Undefined} :
        /\ (~RoomHas(rooms, r) /\ JoinRoom(s, r, u))
           => /\ RoomHas(rooms', r)
              /\ getHost(rooms', r) = s
              /\ Participants(r)' = {s}
              /\ Pending(r)' = {}
              /\ \E i \in 1..Len(out') : out'[i] = ToSocket(s, "host-status", Payload)
              /\ \E i \in 1..Len(out') :
                   out'[i] = ToSocket(s, "admitted", [Payload EXCEPT !.roomId = r])
        /\ ( /\ ~HasActive(r)
             /\ JoinRoom(s, r, u)
             /\ \E i \in 1..Len(out') : out'[i] = ToSocket(s, "host-status", Payload) )
           => getHost(rooms', r) = s
    ]_vars

\* C10: join-room from a connection that is already an active participant of
\* the room leaves participants (set and order) and the pending list as they
\* are and sends no user-connected.
C10_IdempotentRejoin ==
  ~crashed =>
    \A s \in sockets, r \in RoomIds : \A u \in {userDataOf[s], Undefined} :
      s \in Participants(r) =>
        LET e == OnJoinRoom(s, r, u)
        IN  /\ ~e.threw
            /\ RoomHas(e.rooms, r)
            /\ getRoom(e.rooms, r).participants = getRoom(rooms, r).participants
            /\ getRoom(e.rooms, r).pendingParticipants = getRoom(rooms, r).pendingParticipants
            /\ \A i \in 1..Len(e.out) : e.out[i].name # "user-connected"

\* An active participant next to another one has just re-sent join-room: it
\* got admitted and the roster, and nothing was broadcast.
C10_Witness ==
  \E s \in sockets :
    /\ s \in Participants("r1")
    /\ Len(getRoom(rooms, "r1").participants) >= 2
    /\ Emitted("existing-users") # {}
    /\ Emitted("user-connected") = {}
    /\ \A i \in 1..Len(out) : out[i].toSocket = s

----------------------------------------------------------------------------
\* C11: admit-participant from the host for a target that is not in the
\* room's pending list sends the host `error` and nothing else, does not add
\* the target to participants, and leaves participants, the pending list and
\* the broadcast groups unchanged.
C11_AdmitUnknownTarget ==
  ~crashed =>
    \A s \in sockets, r \in RoomIds, t \in 1..MaxConns :
      (RoomHas(rooms, r) /\ getHost(rooms, r) = s /\ t \notin Pending(r)) =>
        LET e == OnAdmitParticipant(s, r, t)
        IN  /\ ~e.threw
            /\ e.out = << ToSocket(s, "error", Payload) >>
            /\ ParticipantsIn(e.rooms, r) = Participants(r)
            /\ getRoom(e.rooms, r).participants = getRoom(rooms, r).participants
            /\ getRoom(e.rooms, r).pendingParticipants = getRoom(rooms, r).pendingParticipants
            /\ e.groups = groups

\* The host, with another active participant next to it and nobody waiting,
\* has just been refused an admit.
C11_Witness ==
  \E s \in sockets :
    /\ getHost(rooms, "r1") = s
    /\ s \in Participants("r1")
    /\ Cardinality(Participants("r1")) >= 2
    /\ Pending("r1") = {}
    /\ out = << ToSocket(s, "error", Payload) >>

----------------------------------------------------------------------------
\* C12: reject-participant from the host never sends `error` and sends the
\* host participant-rejected; for a target that is not in the pending list it
\* leaves participants, the pending list and the host fields unchanged; a
\* second reject of the same target still passes the host check and leaves
\* the store the first reject left.
C12_RejectIdempotent ==
  ~crashed =>
    \A s \in sockets, r \in RoomIds, t \in 1..MaxConns :
      (RoomHas(rooms, r) /\ getHost(rooms, r) = s) =>
        LET e == OnRejectParticipant(s, r, t)
        IN  /\ ~e.threw
            /\ \A i \in 1..Len(e.out) : e.out[i].name # "error"
            /\ \E i \in 1..Len(e.out) :
                 e.out[i] = ToSocket(s, "participant-rejected",
                                     [Payload EXCEPT !.socketId = t])
            /\ t \notin Pending(r) => e.rooms = rooms
            /\ t \notin PendingIn(e.rooms, r)
            /\ isHost(e.rooms, r, s, Null)
            /\ removePendingParticipant(e.rooms, r, t) = e.rooms

\* The host has just rejected a connection that is closed or was never
\* opened, hence was not waiting.
C12_Witness ==
  \E s \in sockets, t \in (1..MaxConns) \ sockets :
    /\ getHost(rooms, "r1") = s
    /\ out = << ToSocket(t, "rejected", [Payload EXCEPT !.roomId = "r1"]),
                ToSocket(s, "participant-rejected", [Payload EXCEPT !.socketId = t]) >>

----------------------------------------------------------------------------
\* C13: a kick by the host of the only active participant takes the room out
\* of the store, its pending list and host fields with it; a join-room that
\* finds no room under the id takes the first-user branch and creates a room
\* that has the joining connection as host, its identity as hostUserId, and
\* nobody waiting or active but the joining connection.
C13_KickLastDeletesRoom ==
  ~crashed =>
    \A r \in RoomIds :
      /\ \A s \in sockets, t \in 1..MaxConns :
           (RoomHas(rooms, r) /\ getHost(rooms, r) = s /\ Participants(r) = {t}) =>
             LET e == OnKickParticipant(s, r, t)
             IN  /\ ~e.threw
                 /\ ~RoomHas(e.rooms, r)
                 /\ \A i \in 1..Len(e.rooms) : e.rooms[i].id # r
                 /\ getHost(e.rooms, r) = NoSocket
                 /\ PendingIn(e.rooms, r) = {}
                 /\ HostUserIdIn(e.rooms, r) = Null
      /\ ~RoomHas(rooms, r) =>
           \A s \in sockets : \A u \in {userDataOf[s], Undefined} :
             LET j == OnJoinRoom(s, r, u)
             IN  /\ RoomHas(j.rooms, r)
                 /\ getHost(j.rooms, r) = s
                 /\ HostUserIdIn(j.rooms, r) = UserIdOf(u)
                 /\ PendingIn(j.rooms, r) = {}
                 /\ ParticipantsIn(j.rooms, r) \subseteq {s}
                 /\ u.present => (~j.threw /\ ParticipantsIn(j.rooms, r) = {s})

\* The host, no longer a participant itself, has just kicked the last
\* participant and the room is gone.
C13_Witness ==
  \E s \in sockets, t \in sockets :
    /\ s # t
    /\ ~crashed
    /\ ~RoomHas(rooms, "r1")
    /\ out = << ToSocket(t, "kicked", [Payload EXCEPT !.socketId = s]),
                ToRoom("r1", "participant-kicked",
                       [Payload EXCEPT !.socketId = t, !.by = s]) >>

----------------------------------------------------------------------------
\* C14: the disconnect handler of connection c leaves c a key of neither
\* participants nor pendingParticipants of any room in the store, and no
\* later event puts a closed connection back: in every state the keys of both
\* maps of every room are open connections.
C14_DisconnectClearsAllRooms ==
  ~crashed =>
    /\ \A c \in sockets :
         LET d == OnDisconnect(c)
         IN  \A i \in 1..Len(d.rooms) :
               /\ ~MapHas(d.rooms[i].participants, c)
               /\ ~MapHas(d.rooms[i].pendingParticipants, c)
    /\ \A r \in RoomIds, c \in (1..nextId) \ sockets :
         c \notin Participants(r) /\ c \notin Pending(r)

\* A connection that was active in one room and waiting in another has just
\* been lost: one room was told user-disconnected, the host of another
\* participant-rejected, and the connection is in neither.
C14_Witness ==
  \E c \in (1..nextId) \ sockets, h \in sockets, r1 \in RoomIds, r2 \in RoomIds :
    /\ r1 # r2
    /\ out = << ToRoomExcept(r1, c, "user-disconnected", [Payload EXCEPT !.socketId = c]),
                ToSocket(h, "participant-rejected", [Payload EXCEPT !.socketId = c]) >>
    /\ getHost(rooms, r2) = h
    /\ \A r \in RoomIds : c \notin Participants(r) /\ c \notin Pending(r)

----------------------------------------------------------------------------
\* C15: a connection in a room's pending list is not a member of that room's
\* broadcast group (so no event addressed to the room reaches it).
C15_PendingOutsideGroup ==
  \A r \in RoomIds : Pending(r) \cap groups[r] = {}

----------------------------------------------------------------------------
\* C16: chat-message, toggle-audio, toggle-video, transcription,
\* screen-share-start and screen-share-stop from a connection that is not an
\* active participant of the stated room (waiting, kicked, never joined, or
\* the room unknown) send nothing to anyone, no `error` either, and leave the
\* store and the broadcast groups unchanged.
C16_RelayIgnoresOutsiders ==
  ~crashed =>
    \A s \in sockets, r \in RoomIds :
      s \notin Participants(r) =>
        \A e \in {OnChatMessage(s, r), OnToggleAudio(s, r), OnToggleVideo(s, r),
                  OnTranscription(s, r), OnScreenShareStart(s, r),
                  OnScreenShareStop(s, r)} :
          /\ ~e.threw
          /\ e.out = <<>>
          /\ e.rooms = rooms
          /\ e.groups = groups

\* No connection was ever lost, every open connection is active or waiting
\* in the room, somebody is waiting, and the event handled last sent nothing:
\* it was a relay event from a connection that is not active.
C16_Witness ==
  /\ ~crashed
  /\ out = <<>>
  /\ timers = <<>>
  /\ sockets = 1..nextId
  /\ Pending("r1") # {}
  /\ sockets = Participants("r1") \cup Pending("r1")
  /\ Participants("r1") \cap Pending("r1") = {}

----------------------------------------------------------------------------
\* The keys of a Map in insertion order.
KeySeq(m) == [i \in 1..Len(m) |-> m[i].socketId]

\* C17: for connections A and B, each joining with its userData and B's
\* identity not matching the host's: (1) A's join-room for a room id not in
\* the store leaves the room with participants A, nobody waiting and host A;
\* (2) from there B's join-room leaves B waiting, sends B waiting-room and A
\* pending-participant for B; (3) from there A's admit-participant for B leaves
\* participants A then B, nobody waiting and host A, puts B in the broadcast
\* group, and sends B admitted and an existing-users roster holding exactly A
\* with isHost true, the room user-connected for B, and A participant-admitted.
C17_AdmissionScenario ==
  ~crashed =>
    \A r \in RoomIds, A \in sockets, B \in sockets :
      A # B =>
        /\ ~RoomHas(rooms, r) =>
             LET e == OnJoinRoom(A, r, userDataOf[A])
             IN  /\ ~e.threw
                 /\ RoomHas(e.rooms, r)
                 /\ KeySeq(getRoom(e.rooms, r).participants) = << A >>
                 /\ getRoom(e.rooms, r).pendingParticipants = <<>>
                 /\ getHost(e.rooms, r) = A
        /\ ( /\ RoomHas(rooms, r)
             /\ KeySeq(getRoom(rooms, r).participants) = << A >>
             /\ getRoom(rooms, r).pendingParticipants = <<>>
             /\ getHost(rooms, r) = A
             /\ ~isHost(rooms, r, B, UserIdOf(userDataOf[B])) ) =>
             LET e == OnJoinRoom(B, r, userDataOf[B])
             IN  /\ ~e.threw
                 /\ KeySeq(getRoom(e.rooms, r).participants) = << A >>
                 /\ KeySeq(getRoom(e.rooms, r).pendingParticipants) = << B >>
                 /\ getHost(e.rooms, r) = A
                 /\ e.out = << ToSocket(B, "waiting-room", [Payload EXCEPT !.roomId = r]),
                               ToSocket(A, "pending-participant",
                                        [Payload EXCEPT !.socketId = B]) >>
        /\ ( /\ RoomHas(rooms, r)
             /\ KeySeq(getRoom(rooms, r).participants) = << A >>
             /\ KeySeq(getRoom(rooms, r).pendingParticipants) = << B >>
             /\ getHost(rooms, r) = A ) =>
             LET e == OnAdmitParticipant(A, r, B)
             IN  /\ ~e.threw
                 /\ KeySeq(getRoom(e.rooms, r).participants) = << A, B >>
                 /\ getRoom(e.rooms, r).pendingParticipants = <<>>
                 /\ getHost(e.rooms, r) = A
                 /\ B \in e.groups[r]
                 /\ e.out =
                      << ToSocket(B, "admitted", [Payload EXCEPT !.roomId = r]),
                         ToSocket(B, "existing-users",
                                  [Payload EXCEPT !.users =
                                     << [socketId |-> A, isHost |-> TRUE] >>]),
                         ToRoom(r, "user-connected", [Payload EXCEPT !.socketId = B]),
                         ToSocket(A, "participant-admitted",
                                  [Payload EXCEPT !.socketId = B]) >>

\* A has just admitted B: participants are A then B, nobody waits, A is host.
C17_Witness ==
  \E A \in sockets, B \in sockets :
    /\ A # B
    /\ RoomHas(rooms, "r1")
    /\ KeySeq(getRoom(rooms, "r1").participants) = << A, B >>
    /\ getRoom(rooms, "r1").pendingParticipants = <<>>
    /\ getHost(rooms, "r1") = A
    /\ Len(out) = 4
    /\ out[3] = ToRoom("r1", "user-connected", [Payload EXCEPT !.socketId = B])
    /\ out[4] = ToSocket(A, "participant-admitted", [Payload EXCEPT !.socketId = B])

----------------------------------------------------------------------------
\* The values a caller can pass as userId: an identity, the empty string, null.
Identities == UserIds \cup {"", Null}

\* C18: on every store the program reaches, isHost(roomId, c, u) is true
\* exactly when the room exists and (c is its hostSocketId, or u is not null
\* and equals its hostUserId); it is false for a room id not in the store; and
\* a handler whose only use of the store is isHost (mute-participant) leaves
\* the store as it is.
C18_IsHost ==
  /\ \A r \in RoomIds, c \in 1..WideConns, u \in Identities :
       /\ isHost(rooms, r, c, u) =
            ( /\ \E i \in 1..Len(rooms) : rooms[i].id = r
              /\ \E i \in 1..Len(rooms) :
                   /\ rooms[i].id = r
                   /\ \/ rooms[i].hostSocketId = c
                      \/ (u # Null /\ rooms[i].hostUserId = u) )
       /\ (\A i \in 1..Len(rooms) : rooms[i].id # r) => ~isHost(rooms, r, c, u)
  /\ ~crashed =>
       \A s \in sockets, r \in RoomIds, t \in 1..WideConns :
         OnMuteParticipant(s, r, t).rooms = rooms

\* A connection that is not the first participant joined with the room's
\* hostUserId: isHost recognised it by identity and it is now hostSocketId.
C18_Witness ==
  \E s \in sockets :
    /\ RoomHas(rooms, "r1")
    /\ Len(getRoom(rooms, "r1").participants) = 2
    /\ getRoom(rooms, "r1").participants[2].socketId = s
    /\ getHost(rooms, "r1") = s
    /\ UserIdOf(userDataOf[s]) = HostUserId("r1")
    /\ \E i \in 1..Len(out) : out[i] = ToSocket(s, "host-status", Payload)

----------------------------------------------------------------------------
\* The participants of room r in store st, as connection ids in Map order.
ParticipantSeqIn(st, r) ==
  IF RoomHas(st, r) THEN KeySeq(getRoom(st, r).participants) ELSE <<>>

\* `new` keeps the keys it shares with `old` in the order of `old`, and every
\* other key of `new` lies behind them: what was inserted later stands later.
KeepsInsertionOrder(old, new) ==
  LET inOld(k) == \E i \in 1..Len(old) : old[i] = k
      inNew(k) == \E i \in 1..Len(new) : new[i] = k
  IN  /\ SelectSeq(new, inOld) = SelectSeq(old, inNew)
      /\ \A i, j \in 1..Len(new) : (~inOld(new[i]) /\ inOld(new[j])) => j < i

\* C19: on a room with active participants transferHost returns the first key
\* of `participants` and leaves it as hostSocketId, and the first key is the
\* earliest inserted of the current participants, since every handler leaves
\* the keys it keeps in their order and puts a key it adds (a re-added one
\* too) last; on a room id not in the store, or a room without participants,
\* transferHost returns null and leaves the store as it is.
C19_TransferHostEarliest ==
  /\ \A r \in RoomIds :
       IF RoomHas(rooms, r) /\ Len(getRoom(rooms, r).participants) > 0
         THEN /\ transferHostResult(rooms, r) = ParticipantSeqIn(rooms, r)[1]
              /\ getHost(transferHost(rooms, r), r) = transferHostResult(rooms, r)
              /\ ParticipantSeqIn(transferHost(rooms, r), r) = ParticipantSeqIn(rooms, r)
         ELSE /\ transferHostResult(rooms, r) = NoSocket
              /\ transferHost(rooms, r) = rooms
  /\ ~crashed =>
       \A s \in sockets, r \in RoomIds :
         /\ \A t \in 1..MaxConns :
              \A e \in {OnAdmitParticipant(s, r, t), OnKickParticipant(s, r, t),
                        OnRejectParticipant(s, r, t)} :
                KeepsInsertionOrder(ParticipantSeqIn(rooms, r), ParticipantSeqIn(e.rooms, r))
         /\ \A u \in {userDataOf[s], Undefined} :
              KeepsInsertionOrder(ParticipantSeqIn(rooms, r),
                                  ParticipantSeqIn(OnJoinRoom(s, r, u).rooms, r))
         /\ KeepsInsertionOrder(ParticipantSeqIn(rooms, r),
                                ParticipantSeqIn(OnDisconnect(s).rooms, r))
         /\ timers # <<>> =>
              KeepsInsertionOrder(ParticipantSeqIn(rooms, r),
                                  ParticipantSeqIn(Reconcile(rooms, Head(timers)).rooms, r))

\* The reconciliation made the first of the two remaining participants host,
\* and that participant has the larger connection id: it was admitted before
\* a connection that had connected earlier.
C19_Witness ==
  /\ RoomHas(rooms, "r1")
  /\ Len(getRoom(rooms, "r1").participants) = 2
  /\ ParticipantSeqIn(rooms, "r1")[1] > ParticipantSeqIn(rooms, "r1")[2]
  /\ getHost(rooms, "r1") = ParticipantSeqIn(rooms, "r1")[1]
  /\ out = << ToRoom("r1", "host-updated",
                      [Payload EXCEPT !.socketId = ParticipantSeqIn(rooms, "r1")[1]]),
              ToSocket(ParticipantSeqIn(rooms, "r1")[1], "host-status", Payload) >>

----------------------------------------------------------------------------
\* Connection c, still open, waits in room r.
Waits(c, r) == c \in sockets /\ c \in Pending(r)

\* The events that neither decide on a pending connection nor remove a
\* participant leave the record of c in room r: join-room, mute-participant,
\* the relayed events and the reconciliation.
OthersKeepRecord(c, r) ==
  /\ \A s \in sockets, r2 \in RoomIds :
       /\ \A u \in {userDataOf[s], Undefined} :
            c \in PendingIn(OnJoinRoom(s, r2, u).rooms, r)
       /\ \A t \in 1..MaxConns : c \in PendingIn(OnMuteParticipant(s, r2, t).rooms, r)
       /\ \A e \in {OnChatMessage(s, r2), OnToggleAudio(s, r2), OnToggleVideo(s, r2),
                    OnTranscription(s, r2), OnScreenShareStart(s, r2),
                    OnScreenShareStop(s, r2)} :
            c \in PendingIn(e.rooms, r)
  /\ timers # <<>> => c \in PendingIn(Reconcile(rooms, Head(timers)).rooms, r)

\* admit-participant and reject-participant take the record of c out of room r
\* only when sent by hostSocketId of r, for r, with c as target.
OnlyHostDecides(c, r) ==
  \A s \in sockets, r2 \in RoomIds, t \in 1..MaxConns :
    \A e \in {OnAdmitParticipant(s, r2, t), OnRejectParticipant(s, r2, t)} :
      c \notin PendingIn(e.rooms, r) => (s = getHost(rooms, r) /\ r2 = r /\ t = c)

\* C20 as stated: the record of a still-connected pending connection leaves
\* the pending list only by the host's admit, the host's reject or the
\* connection's own disconnect; a kick and another connection's disconnect
\* leave it there.
C20_PendingUntilDecided ==
  ~crashed =>
    \A r \in RoomIds, c \in sockets :
      Waits(c, r) =>
        /\ OthersKeepRecord(c, r)
        /\ OnlyHostDecides(c, r)
        /\ \A s \in sockets, r2 \in RoomIds, t \in 1..MaxConns :
             c \in PendingIn(OnKickParticipant(s, r2, t).rooms, r)
        /\ \A s \in sockets \ {c} : c \in PendingIn(OnDisconnect(s).rooms, r)

\* C20: the record of a still-connected pending connection leaves the pending
\* list only by the host's admit, the host's reject, the connection's own
\* disconnect, or with the whole room, when the kick or the disconnect of the
\* room's last active participant deletes the room; no other event removes it.
C20_PendingUntilDecidedOrRoomGone ==
  ~crashed =>
    \A r \in RoomIds, c \in sockets :
      Waits(c, r) =>
        /\ OthersKeepRecord(c, r)
        /\ OnlyHostDecides(c, r)
        /\ \A s \in sockets, r2 \in RoomIds, t \in 1..MaxConns :
             c \notin PendingIn(OnKickParticipant(s, r2, t).rooms, r)
               => /\ r2 = r
                  /\ Participants(r) = {t}
                  /\ ~RoomHas(OnKickParticipant(s, r2, t).rooms, r)
        /\ \A s \in sockets \ {c} :
             c \notin PendingIn(OnDisconnect(s).rooms, r)
               => /\ Participants(r) = {s}
                  /\ ~RoomHas(OnDisconnect(s).rooms, r)

\* The host has just rejected one of two waiting connections: the other one,
\* still connected, keeps its record.
C20_Witness ==
  \E h \in sockets, c \in sockets, c2 \in sockets :
    /\ c # c2
    /\ getHost(rooms, "r1") = h
    /\ Participants("r1") = {h}
    /\ Pending("r1") = {c}
    /\ c2 # h
    /\ out = << ToSocket(c2, "rejected", [Payload EXCEPT !.roomId = "r1"]),
                ToSocket(h, "participant-rejected", [Payload EXCEPT !.socketId = c2]) >>

----------------------------------------------------------------------------
\* C21: in every existing-users roster just sent, each entry's isHost flag is
\* true exactly when the entry's socketId is the room's hostSocketId, whatever
\* userData the entry's participant joined with; so at most one entry has
\* isHost true.
C21_RosterHostFlag ==
  \A i \in Emitted("existing-users") :
    LET users == out[i].payload.users
    IN  /\ \A k \in 1..Len(users) :
             users[k].isHost = (users[k].socketId = getHost(rooms, "r1"))
        /\ Cardinality({k \in 1..Len(users) : users[k].isHost}) <= 1

----------------------------------------------------------------------------
\* The record is what the spec says addParticipant / addPendingParticipant
\* store for the userData u: a non-empty displayName, videoEnabled and
\* audioEnabled booleans that are false only if u set false, name as sent.
StoredAsSpecified(p, u) ==
  /\ p.displayName \notin {Absent, Null, ""}
  /\ (u.displayName \in {Absent, Null, ""} /\ u.name \in {Absent, Null, ""})
       => p.displayName = "User"
  /\ p.videoEnabled = (IF u.videoEnabled = JsFalse THEN JsFalse ELSE JsTrue)
  /\ p.audioEnabled = (IF u.audioEnabled = JsFalse THEN JsFalse ELSE JsTrue)
  /\ p.name = u.name

\* C22: every record in participants or pendingParticipants has a non-empty
\* displayName ("User" by default), videoEnabled and audioEnabled that are
\* booleans, true unless the userData its connection joined with set false,
\* and the other fields of that userData unchanged.
C22_StoredDefaults ==
  \A i \in 1..Len(rooms) :
    /\ \A k \in 1..Len(rooms[i].participants) :
         StoredAsSpecified(rooms[i].participants[k],
                           userDataOf[rooms[i].participants[k].socketId])
    /\ \A k \in 1..Len(rooms[i].pendingParticipants) :
         StoredAsSpecified(rooms[i].pendingParticipants[k],
                           userDataOf[rooms[i].pendingParticipants[k].socketId])

----------------------------------------------------------------------------
\* The userData two racing clients may send: one of two identities, as userId
\* or as id, or none.
RaceUserDatas ==
  {Plain(u, Null) : u \in {"u1", "u2", Null}} \cup {Plain(Null, i) : i \in {"u1", "u2"}}

\* Number of rooms in store st whose id is r.
RoomCount(st, r) == Cardinality({i \in 1..Len(st) : st[i].id = r})

\* C23: two connections A and B send join-room for a room id not in the store,
\* with different identities or none.  Whichever event is handled first (A's)
\* leaves one room with A as hostSocketId and sole participant; the other
\* event, handled in that state, leaves B in the pending list and A as host
\* and sole participant: never both active, never both host, never two rooms.
C23_FirstJoinWins ==
  ~crashed =>
    \A r \in RoomIds, A \in sockets : \A B \in sockets \ {A} :
      /\ ~RoomHas(rooms, r) =>
           \A u \in RaceUserDatas :
             LET e == OnJoinRoom(A, r, u)
             IN  /\ ~e.threw
                 /\ RoomCount(e.rooms, r) = 1
                 /\ getHost(e.rooms, r) = A
                 /\ ParticipantSeqIn(e.rooms, r) = << A >>
                 /\ PendingIn(e.rooms, r) = {}
                 /\ HostUserIdIn(e.rooms, r) = UserIdOf(u)
      /\ ( /\ RoomHas(rooms, r)
           /\ getHost(rooms, r) = A
           /\ ParticipantSeqIn(rooms, r) = << A >>
           /\ Pending(r) = {} ) =>
           \A u \in RaceUserDatas :
             (UserIdOf(u) = Null \/ UserIdOf(u) # HostUserId(r)) =>
               LET e == OnJoinRoom(B, r, u)
               IN  /\ ~e.threw
                   /\ RoomCount(e.rooms, r) = 1
                   /\ getHost(e.rooms, r) = A
                   /\ ~isHost(e.rooms, r, B, UserIdOf(u))
                   /\ ParticipantSeqIn(e.rooms, r) = << A >>
                   /\ PendingIn(e.rooms, r) = {B}

\* The second of two joins for a fresh room has just been handled: its
\* connection waits, the first one is host and the only participant.
C23_Witness ==
  \E A \in sockets : \E B \in sockets \ {A} :
    /\ RoomCount(rooms, "r1") = 1
    /\ getHost(rooms, "r1") = A
    /\ ParticipantSeqIn(rooms, "r1") = << A >>
    /\ Pending("r1") = {B}
    /\ UserIdOf(userDataOf[B]) = Null
    /\ UserIdOf(userDataOf[A]) # Null
    /\ B \notin groups["r1"]
    /\ out = << ToSocket(B, "waiting-room", [Payload EXCEPT !.roomId = "r1"]),
                ToSocket(A, "pending-participant", [Payload EXCEPT !.socketId = B]) >>

----------------------------------------------------------------------------
\* The record has the defaults: displayName "User", audio and video enabled.
HasDefaults(p) ==
  p.displayName = "User" /\ p.videoEnabled = JsTrue /\ p.audioEnabled = JsTrue

\* C24: a join-room without userData runs to completion: for a room id not in
\* the store it leaves the connection host and participant, for a room with
\* active participants where it is neither active nor host it leaves the
\* connection pending, in both cases with the default record; and it never
\* leaves a room without participants or a host that is not a participant of
\* the room it created.
C24_AbsentUserDataHandled ==
  ~crashed =>
    \A s \in sockets, r \in RoomIds :
      LET e == OnJoinRoom(s, r, Undefined)
      IN  /\ ~e.threw
          /\ \A i \in 1..Len(e.rooms) : Len(e.rooms[i].participants) > 0
          /\ ~RoomHas(rooms, r) =>
               /\ getHost(e.rooms, r) = s
               /\ s \in ParticipantsIn(e.rooms, r)
               /\ HasDefaults(MapGet(getRoom(e.rooms, r).participants, s))
          /\ (HasActive(r) /\ s \notin Participants(r) /\ s \notin Pending(r)
                /\ ~isHost(rooms, r, s, Null)) =>
               /\ s \in PendingIn(e.rooms, r)
               /\ HasDefaults(MapGet(getRoom(e.rooms, r).pendingParticipants, s))

----------------------------------------------------------------------------
\* The reconciliation callback t takes the transfer branch: the room is in
\* the store, the departed host is still installed and no participant carries
\* its identity.
Transfers(t) ==
  /\ RoomHas(rooms, t.roomId)
  /\ getHost(rooms, t.roomId) = t.oldHostSocketId
  /\ ReconnectedHost(getRoom(rooms, t.roomId).participants, t.hostUserId) = NoSocket
  /\ transferHostResult(rooms, t.roomId) # NoSocket

\* C25: a transferHost that selects participant p leaves hostUserId equal to
\* p's userId when p's record has one, and as it was otherwise, and makes
\* isHost true for p and for no other connection; when the reconciliation
\* transfers, isHost is then false for the departed host.
C25_TransferAdoptsUserId ==
  /\ \A r \in RoomIds :
       (RoomHas(rooms, r) /\ Len(getRoom(rooms, r).participants) > 0) =>
         LET p == getRoom(rooms, r).participants[1]
             st == transferHost(rooms, r)
         IN  /\ transferHostResult(rooms, r) = p.socketId
             /\ HostUserIdIn(st, r) =
                  (IF p.userId \notin {Null, ""} THEN p.userId ELSE HostUserId(r))
             /\ isHost(st, r, p.socketId, Null)
             /\ \A c \in (0..MaxConns) \ {p.socketId} : ~isHost(st, r, c, Null)
  /\ (~crashed /\ timers # <<>> /\ Transfers(Head(timers))) =>
       LET t == Head(timers)
           p == getRoom(rooms, t.roomId).participants[1]
           e == Reconcile(rooms, t)
       IN  /\ HostUserIdIn(e.rooms, t.roomId) =
                (IF p.userId \notin {Null, ""} THEN p.userId ELSE HostUserId(t.roomId))
           /\ isHost(e.rooms, t.roomId, p.socketId, Null)
           /\ ~isHost(e.rooms, t.roomId, t.oldHostSocketId, Null)

\* The reconciliation has just transferred host to a participant whose record
\* has no userId: hostUserId still holds the departed host's identity.
C25_Witness ==
  /\ RoomHas(rooms, "r1")
  /\ Len(getRoom(rooms, "r1").participants) > 0
  /\ LET p == getRoom(rooms, "r1").participants[1]
     IN  /\ getHost(rooms, "r1") = p.socketId
         /\ p.userId = Null
         /\ HostUserId("r1") # Null
         /\ out = << ToRoom("r1", "host-updated", [Payload EXCEPT !.socketId = p.socketId]),
                     ToSocket(p.socketId, "host-status", Payload) >>

----------------------------------------------------------------------------
\* The connections that were opened and are closed by now.
Closed == (1..nextId) \ sockets

\* C26: in every state each key of a room's participants or
\* pendingParticipants is an open connection, and an admit-participant that
\* names a closed connection, handled after that connection's disconnect,
\* inserts it nowhere.
C26_OnlyOpenConnections ==
  /\ \A i \in 1..Len(rooms) :
       MapKeys(rooms[i].participants) \cup MapKeys(rooms[i].pendingParticipants)
         \subseteq sockets
  /\ ~crashed =>
       \A s \in sockets, r \in RoomIds, t \in Closed :
         LET e == OnAdmitParticipant(s, r, t)
         IN  /\ e.rooms = rooms
             /\ t \notin e.groups[r]
             /\ e.out = << ToSocket(s, "error", Payload) >>

\* A waiting connection has just been lost: the host was told
\* participant-rejected and the connection is in neither list, so an admit
\* that is still on its way will find nothing.
C26_Witness ==
  \E c \in Closed, h \in sockets :
    /\ getHost(rooms, "r1") = h
    /\ h \in Participants("r1")
    /\ c \notin Participants("r1") \cup Pending("r1")
    /\ out = << ToSocket(h, "participant-rejected", [Payload EXCEPT !.socketId = c]) >>

----------------------------------------------------------------------------
\* C27, as what every step must do to keep it: whenever a connection p enters
\* a room's pending list, or hostSocketId of the room changes while p waits,
\* the step sends pending-participant for p to the connection that is
\* hostSocketId afterwards, and that connection is open.
C27_HostToldOfPending ==
  [][ \A r \in RoomIds, p \in 1..MaxConns :
        ( /\ p \in PendingIn(rooms', r)
          /\ p \in sockets'
          /\ (p \notin Pending(r) \/ getHost(rooms', r) # getHost(rooms, r)) )
        => /\ getHost(rooms', r) \in sockets'
           /\ \E i \in 1..Len(out') :
                out'[i] = ToSocket(getHost(rooms', r), "pending-participant",
                                   [Payload EXCEPT !.socketId = p])
    ]_vars

----------------------------------------------------------------------------
\* C28: in every state the broadcast group of a room holds only connections
\* that are active participants of the room, so a connection taken out of
\* `participants` by a kick is no recipient of an event addressed to the room.
C28_GroupOnlyParticipants ==
  \A r \in RoomIds : groups[r] \subseteq Participants(r)

\* C29: an admit, reject, mute or kick passes the host check only if its
\* sender is an active participant of the room; a connection that is no
\* longer in `participants` is answered with `error`.
C29_HostActsOnlyWhileActive ==
  ~crashed =>
    \A s \in sockets, r \in RoomIds, t \in 1..MaxConns :
      s \notin Participants(r) =>
        \A e \in {OnAdmitParticipant(s, r, t), OnRejectParticipant(s, r, t),
                  OnMuteParticipant(s, r, t), OnKickParticipant(s, r, t)} :
          /\ e.out = << ToSocket(s, "error", Payload) >>
          /\ e.rooms = rooms

====
